---- MODULE Spec2Model ----
(***************************************************************************)
(* Model of the visibility observation scheduler of                        *)
(* src/scenarios/IntersectionObserverExample.tsx:                          *)
(*   - IntersectionObserverProvider: observerRef, observedNodes,           *)
(*     tempNodes, registerObserver, rootRef and the IntersectionObserver   *)
(*     callback (the batch dispatcher);                                    *)
(*   - useIntersectionObserver: the isInitiallyVisible ref, the shared     *)
(*     context.initiallyVisibleElements counter and observeRef.            *)
(***************************************************************************)
EXTENDS Integers, Sequences, FiniteSets, TLC

(* ------------------------------ bounds -------------------------------- *)
\* registrations the pending queue takes
MaxPending == 2
\* entries of one tick
MaxTick == 2
\* sensors left connected without a reference
MaxLeaked == 1
\* consumers of the hook
NumConsumers == 2
\* largest initiallyVisibleElements prop
MaxInitiallyVisible == 2

\* element handles and callback identities are opaque: the code only compares
\* them for identity
Handles == {"A", "B"}
Callbacks == {"cb1", "cb2"}
Consumers == 1..NumConsumers

\* a null Element
NULL == "null"
\* the root HTMLElement handed to rootRef
ROOT == "root"

\* values of the rootMargin prop, as the numbers parseFloat reads from its
\* space-separated components; <<>> is an undefined rootMargin
RootMargins == {<<>>, <<0, 0>>, <<1000, 0>>}

VARIABLES
  observerRef,   \* <<>> (null) or <<sensor>>: the IntersectionObserver in observerRef.current
  leaked,        \* IntersectionObservers constructed, never disconnected, no longer referenced
  observedNodes, \* the Map observedNodes.current, in insertion order
  tempNodes,     \* the array tempNodes.current
  initiallyVisibleElements, \* context.current.initiallyVisibleElements
  isInitiallyVisible,       \* per consumer: isInitiallyVisible.current
  stopProp,                 \* per consumer: the stopObservingOnceVisible argument of the hook
  batch,         \* the entries of the tick whose unstable_batchedUpdates is running
  fired,         \* the callbacks invoked inside it, in order
  lastOp,        \* history: what the last operation did
  dupReg,        \* history: handle registered while already registered or queued, with no
                 \* tick, unregistration or detach since
  cancelled,     \* history: <<handle, callback>> pairs unregistered and not registered again
  firstClaim,    \* history: per consumer, the result of its first claim
  claimOrder,    \* history: consumers in the order of their first claim
  initialCount,  \* history: the initiallyVisibleElements prop at construction
  track          \* which of dupReg and cancelled the specification records

schedVars == <<observerRef, leaked, observedNodes, tempNodes>>
hookVars == <<initiallyVisibleElements, isInitiallyVisible, stopProp>>
histVars == <<batch, fired, lastOp, dupReg, cancelled, firstClaim, claimOrder, initialCount, track>>
vars == <<observerRef, leaked, observedNodes, tempNodes,
          initiallyVisibleElements, isInitiallyVisible, stopProp,
          batch, fired, lastOp, dupReg, cancelled, firstClaim, claimOrder, initialCount, track>>

(* --------------------------- Map and sensor --------------------------- *)
Range(s) == {s[i] : i \in DOMAIN s}

Count(s, x) == Cardinality({i \in DOMAIN s : s[i] = x})

Min(a, b) == IF a < b THEN a ELSE b

\* Map.prototype.has
MapHas(map, node) == \E i \in DOMAIN map : map[i].node = node

\* Map.prototype.get (callers test MapHas first)
MapGet(map, node) == map[CHOOSE i \in DOMAIN map : map[i].node = node]

\* Map.prototype.set: a present key keeps its position and takes the new value
MapSet(map, entry) ==
  IF MapHas(map, entry.node)
    THEN [i \in DOMAIN map |-> IF map[i].node = entry.node THEN entry ELSE map[i]]
    ELSE Append(map, entry)

\* Map.prototype.delete
MapDelete(map, node) == SelectSeq(map, LAMBDA e : e.node # node)

MapKeys(map) == {map[i].node : i \in DOMAIN map}

\* new IntersectionObserver(...): nothing observed yet
NewSensor == [observed |-> <<>>]

\* IntersectionObserver.observe(node): observed holds the observe requests in
\* force, in arrival order; the targets of the sensor are its range
SensorObserve(sensor, node) == [sensor EXCEPT !.observed = Append(@, node)]

\* IntersectionObserver.unobserve(node)
SensorUnobserve(sensor, node) ==
  [sensor EXCEPT !.observed = SelectSeq(@, LAMBDA n : n # node)]

\* observerRef.current?.observe(node)
RefObserve(ref, node) == IF ref = <<>> THEN ref ELSE <<SensorObserve(ref[1], node)>>

\* observerRef.current?.unobserve(node)
RefUnobserve(ref, node) == IF ref = <<>> THEN ref ELSE <<SensorUnobserve(ref[1], node)>>

Targets(ref) == IF ref = <<>> THEN {} ELSE Range(ref[1].observed)

Live == observerRef # <<>>

LiveSensors == (IF Live THEN 1 ELSE 0) + leaked

Entry(node, cb, stop) ==
  [node |-> node, visibilityCallback |-> cb, stopObservingOnceVisible |-> stop]


(* -------------------------- registerObserver -------------------------- *)
\* the scheduler state an operation reads and writes
Sched(ref, lk, map, temp) ==
  [observerRef |-> ref, leaked |-> lk, observedNodes |-> map, tempNodes |-> temp]

Current == Sched(observerRef, leaked, observedNodes, tempNodes)

\* faulty variant: with a live sensor the node is observed but no registry
\* entry is stored
RegisterNode_NoEntry(st, node, cb, stop) ==
  IF MapHas(st.observedNodes, node)
    THEN st
    ELSE IF st.observerRef = <<>>
      THEN [st EXCEPT !.tempNodes = Append(@, Entry(node, cb, stop))]
      ELSE [st EXCEPT !.observerRef = RefObserve(@, node)]

\* registerObserver, the branch of a present node
RegisterNode(st, node, cb, stop) ==
  IF MapHas(st.observedNodes, node)
    THEN st
    ELSE IF st.observerRef = <<>>
      THEN [st EXCEPT !.tempNodes = Append(@, Entry(node, cb, stop))]
      ELSE [st EXCEPT !.observerRef = RefObserve(@, node),
                      !.observedNodes = MapSet(@, Entry(node, cb, stop))]

\* the entry the for-of loop of the null branch stops at: the first one, in
\* insertion order, whose visibilityCallback is cb (0 when there is none)
FirstMatch(map, cb) ==
  IF \E i \in DOMAIN map : map[i].visibilityCallback = cb
    THEN CHOOSE i \in DOMAIN map :
           /\ map[i].visibilityCallback = cb
           /\ \A j \in 1..(i - 1) : map[j].visibilityCallback # cb
    ELSE 0

\* faulty variant: the loop has no break and removes every entry holding cb
UnregisterCallback_NoBreak(st, cb) ==
  LET hit == {st.observedNodes[i].node : i \in {j \in DOMAIN st.observedNodes :
                 st.observedNodes[j].visibilityCallback = cb}}
  IN [st EXCEPT !.observerRef =
                   IF @ = <<>> THEN @
                   ELSE <<[observed |-> SelectSeq(@[1].observed, LAMBDA n : n \notin hit)]>>,
                !.observedNodes = SelectSeq(@, LAMBDA e : e.node \notin hit)]

\* registerObserver, the branch of a null node
UnregisterCallback(st, cb) ==
  LET i == FirstMatch(st.observedNodes, cb) IN
  IF i = 0
    THEN st
    ELSE [st EXCEPT !.observerRef = RefUnobserve(@, st.observedNodes[i].node),
                    !.observedNodes = MapDelete(@, st.observedNodes[i].node)]

RegisterObserverResult(st, node, cb, stop) ==
  IF node # NULL THEN RegisterNode(st, node, cb, stop) ELSE UnregisterCallback(st, cb)

Tracked(node) ==
  MapHas(observedNodes, node) \/ \E i \in DOMAIN tempNodes : tempNodes[i].node = node

TrackedPairs(cb) ==
  {<<e.node, cb>> : e \in {x \in Range(observedNodes) \cup Range(tempNodes) :
                             x.visibilityCallback = cb}}

\* the history the call leaves behind
RegisterHistory(node, cb) ==
  /\ UNCHANGED <<batch, fired>>
  /\ lastOp' = IF node = NULL
                THEN IF FirstMatch(observedNodes, cb) = 0 THEN "unregister-miss"
                     ELSE "unregistered"
                ELSE IF MapHas(observedNodes, node) THEN "register-noop"
                     ELSE IF Live THEN "registered" ELSE "queued"
  /\ dupReg' = IF track # "dupReg" \/ node = NULL THEN NULL
                ELSE IF Tracked(node) THEN node ELSE dupReg
  /\ cancelled' = IF track # "cancelled" THEN {}
                   ELSE IF node = NULL
                     THEN cancelled \cup TrackedPairs(cb)
                     ELSE {p \in cancelled : p[1] # node}
  /\ UNCHANGED <<firstClaim, claimOrder, initialCount, track>>

SetSched(st) ==
  /\ observerRef' = st.observerRef
  /\ leaked' = st.leaked
  /\ observedNodes' = st.observedNodes
  /\ tempNodes' = st.tempNodes

registerObserver(node, cb, stop) ==
  /\ batch = <<>>
  /\ (node # NULL /\ ~MapHas(observedNodes, node) /\ ~Live) => Len(tempNodes) < MaxPending
  /\ SetSched(RegisterObserverResult(Current, node, cb, stop))
  /\ RegisterHistory(node, cb)
  /\ UNCHANGED hookVars

(* ------------------------------ rootRef ------------------------------- *)
\* rootMargin && rootMargin.split(" ").some((value) => parseFloat(value) > 0)
PositiveMargin(rootMargin) ==
  rootMargin # <<>> /\ \E i \in DOMAIN rootMargin : rootMargin[i] > 0

\* computed styles of the root element: overflow, overflowY, overflowX
Styles ==
  { [overflow |-> "visible", overflowY |-> "visible", overflowX |-> "visible"],
    [overflow |-> "auto", overflowY |-> "auto", overflowX |-> "auto"],
    [overflow |-> "hidden auto", overflowY |-> "auto", overflowX |-> "hidden"] }

\* the condition under which rootRef throws
OverflowCheckFails(rootMargin, style) ==
  /\ PositiveMargin(rootMargin)
  /\ style.overflow # "auto"
  /\ style.overflowY # "auto"
  /\ style.overflowX # "auto"

\* tempNodes.current.forEach(...) from index i on
RECURSIVE FlushFrom(_, _, _)
FlushFrom(st, temp, i) ==
  IF i > Len(temp)
    THEN st
    ELSE FlushFrom([st EXCEPT !.observerRef = RefObserve(@, temp[i].node),
                              !.observedNodes = MapSet(@, temp[i])],
                   temp, i + 1)

\* faulty variant: tempNodes is not reset after the flush
FlushPending_NoClear(st) == FlushFrom(st, st.tempNodes, 1)

\* faulty variant: the queue is flushed last in, first out
FlushPending_Lifo(st) ==
  LET n == Len(st.tempNodes)
      reversed == [i \in 1..n |-> st.tempNodes[n + 1 - i]]
  IN [FlushFrom(st, reversed, 1) EXCEPT !.tempNodes = <<>>]

\* the pending flush and the reset of tempNodes
FlushPending(st) == [FlushFrom(st, st.tempNodes, 1) EXCEPT !.tempNodes = <<>>]

\* faulty variant: the new sensor also observes every handle of the registry
AttachRoot_Reobserves(st) ==
  FlushPending([st EXCEPT !.observerRef =
                            <<[observed |-> [i \in DOMAIN st.observedNodes |->
                                               st.observedNodes[i].node]]>>,
                          !.leaked = IF st.observerRef = <<>> THEN @ ELSE @ + 1])

\* rootRef with a present node that passes the overflow check: the sensor the
\* ref held is overwritten without a disconnect
AttachRoot(st) ==
  FlushPending([st EXCEPT !.observerRef = <<NewSensor>>,
                          !.leaked = IF st.observerRef = <<>> THEN @ ELSE @ + 1])

\* rootRef with a null node
DetachRoot(st) == [st EXCEPT !.observerRef = <<>>]

RootRefThrows(node, rootMargin, style) ==
  node # NULL /\ OverflowCheckFails(rootMargin, style)

\* faulty variant: the overflow check runs after the sensor is built and the
\* queue is flushed
RootRefResult_ThrowsLate(st, node, rootMargin, style) ==
  IF node # NULL THEN AttachRoot(st) ELSE DetachRoot(st)

RootRefResult(st, node, rootMargin, style) ==
  IF node # NULL
    THEN IF OverflowCheckFails(rootMargin, style) THEN st ELSE AttachRoot(st)
    ELSE DetachRoot(st)

rootRef(node, rootMargin, style) ==
  /\ batch = <<>>
  /\ (node # NULL /\ Live /\ ~OverflowCheckFails(rootMargin, style)) => leaked < MaxLeaked
  /\ SetSched(RootRefResult(Current, node, rootMargin, style))
  /\ UNCHANGED <<batch, fired>>
  /\ lastOp' = IF node = NULL THEN "detached"
                ELSE IF RootRefThrows(node, rootMargin, style) THEN "attach-threw"
                     ELSE "attached"
  /\ dupReg' = IF node = NULL THEN NULL ELSE dupReg
  /\ UNCHANGED <<cancelled, firstClaim, claimOrder, initialCount, track>>
  /\ UNCHANGED hookVars

\* a change of the rootMargin/threshold props while the root is attached: the
\* ref callback changes identity, the old one is called with null and the
\* new one with the root
Reconfigure(rootMargin, style) ==
  /\ batch = <<>>
  /\ Live
  /\ SetSched(RootRefResult(DetachRoot(Current), ROOT, rootMargin, style))
  /\ UNCHANGED <<batch, fired>>
  /\ lastOp' = IF RootRefThrows(ROOT, rootMargin, style) THEN "reattach-threw"
                ELSE "reattached"
  /\ dupReg' = NULL
  /\ UNCHANGED <<cancelled, firstClaim, claimOrder, initialCount, track>>
  /\ UNCHANGED hookVars

(* -------------------------- batch dispatcher -------------------------- *)
\* what a tick carries: IntersectionObserverEntry.target and .isIntersecting
TickEntry(node, v) == [target |-> node, isIntersecting |-> v]

Invocation(e, v) ==
  [node |-> e.node, visibilityCallback |-> e.visibilityCallback, isIntersecting |-> v]

\* observedNodeOptions.visibilityCallback(entry.isIntersecting), and whether
\* the target has its registry entry while the callback runs
Call(d, opts, entry) ==
  Invocation(opts, entry.isIntersecting) @@
    [registered |-> MapHas(d.observedNodes, entry.target)]

\* faulty variant: a one-shot target is unobserved but stays in the registry
DispatchEntry_KeepsEntry(d, entry) ==
  IF MapHas(d.observedNodes, entry.target)
    THEN LET opts == MapGet(d.observedNodes, entry.target)
             called == [d EXCEPT !.fired = Append(@, Call(d, opts, entry))]
         IN IF entry.isIntersecting /\ opts.stopObservingOnceVisible
              THEN [called EXCEPT !.observerRef = RefUnobserve(@, entry.target)]
              ELSE called
    ELSE d

\* faulty variant: a target is retired on any pair, intersecting or not
DispatchEntry_RetiresOnAnyPair(d, entry) ==
  IF MapHas(d.observedNodes, entry.target)
    THEN LET opts == MapGet(d.observedNodes, entry.target)
             called == [d EXCEPT !.fired = Append(@, Call(d, opts, entry))]
         IN IF opts.stopObservingOnceVisible
              THEN [called EXCEPT !.observerRef = RefUnobserve(@, entry.target),
                                  !.observedNodes = MapDelete(@, entry.target)]
              ELSE called
    ELSE d

\* the body of entries.forEach for one entry; d carries observerRef,
\* observedNodes and the callbacks invoked so far
DispatchEntry(d, entry) ==
  IF MapHas(d.observedNodes, entry.target)
    THEN LET opts == MapGet(d.observedNodes, entry.target)
             called == [d EXCEPT !.fired = Append(@, Call(d, opts, entry))]
         IN IF entry.isIntersecting /\ opts.stopObservingOnceVisible
              THEN [called EXCEPT !.observerRef = RefUnobserve(@, entry.target),
                                  !.observedNodes = MapDelete(@, entry.target)]
              ELSE called
    ELSE d

\* faulty variant: the walk ends at the first entry whose target has no
\* registry entry
RECURSIVE DispatchFrom_StopsAtStale(_, _, _)
DispatchFrom_StopsAtStale(d, entries, i) ==
  IF i > Len(entries) \/ ~MapHas(d.observedNodes, entries[i].target)
    THEN d
    ELSE DispatchFrom_StopsAtStale(DispatchEntry(d, entries[i]), entries, i + 1)

RECURSIVE DispatchFrom(_, _, _)
DispatchFrom(d, entries, i) ==
  IF i > Len(entries) THEN d ELSE DispatchFrom(DispatchEntry(d, entries[i]), entries, i + 1)

\* faulty variant: the entries are walked from the last to the first
Dispatch_Reversed(ref, map, entries) ==
  LET n == Len(entries) IN
  DispatchFrom([observerRef |-> ref, observedNodes |-> map, fired |-> <<>>],
               [i \in 1..n |-> entries[n + 1 - i]], 1)

\* the IntersectionObserver callback on one tick
Dispatch(ref, map, entries) ==
  DispatchFrom([observerRef |-> ref, observedNodes |-> map, fired |-> <<>>], entries, 1)

TickBatches(H) ==
  UNION {[1..n -> {TickEntry(h, v) : h \in H, v \in BOOLEAN}] : n \in 1..MaxTick}

\* a tick of any live sensor: every live sensor runs the same callback on the
\* shared refs
Tick(entries) ==
  /\ batch = <<>>
  /\ LiveSensors > 0
  /\ LET d == Dispatch(observerRef, observedNodes, entries) IN
       /\ observerRef' = d.observerRef
       /\ observedNodes' = d.observedNodes
       /\ fired' = d.fired
  /\ batch' = entries
  /\ lastOp' = "tick"
  /\ dupReg' = NULL
  /\ UNCHANGED <<leaked, tempNodes, cancelled, firstClaim, claimOrder, initialCount, track>>
  /\ UNCHANGED hookVars

\* unstable_batchedUpdates returns: the state updates the callbacks asked for
\* are applied together; until then nothing else runs on the event loop
EndBatch ==
  /\ batch # <<>>
  /\ batch' = <<>>
  /\ fired' = <<>>
  /\ UNCHANGED <<lastOp, dupReg, cancelled, firstClaim, claimOrder, initialCount, track>>
  /\ UNCHANGED schedVars
  /\ UNCHANGED hookVars

(* ----------------------- useIntersectionObserver ---------------------- *)
\* the consumer's element and its setIsVisible
NodeOf(c) == <<"node", c>>
CallbackOf(c) == <<"setIsVisible", c>>

\* the render-time check of the hook: the value left in isInitiallyVisible.current
ClaimValue(cur, counter) ==
  IF cur = "undefined" /\ counter # 0 THEN "true" ELSE "false"

\* faulty variant: the counter is decremented on every evaluation
ClaimCounter_EveryRender(cur, counter) == IF counter # 0 THEN counter - 1 ELSE counter

\* context.initiallyVisibleElements after the check
ClaimCounter(cur, counter) ==
  IF cur = "undefined" /\ counter # 0 THEN counter - 1 ELSE counter

\* one evaluation of the hook body by consumer c
Render(c) ==
  /\ batch = <<>>
  /\ isInitiallyVisible' =
       [isInitiallyVisible EXCEPT ![c] = ClaimValue(@, initiallyVisibleElements)]
  /\ initiallyVisibleElements' = ClaimCounter(isInitiallyVisible[c], initiallyVisibleElements)
  /\ firstClaim' = IF firstClaim[c] = "none"
                     THEN [firstClaim EXCEPT ![c] = isInitiallyVisible'[c]]
                     ELSE firstClaim
  /\ claimOrder' = IF firstClaim[c] = "none" THEN Append(claimOrder, c) ELSE claimOrder
  /\ UNCHANGED <<batch, fired>>
  /\ lastOp' = "render"
  /\ UNCHANGED <<dupReg, cancelled, initialCount, stopProp, track>>
  /\ UNCHANGED schedVars

\* observeRef skips the registration
SkipsRegistration(c) == isInitiallyVisible[c] = "true" /\ stopProp[c]

\* observeRef(node) of consumer c; node is the consumer's element or null
observeRef(c, node) ==
  /\ batch = <<>>
  /\ isInitiallyVisible[c] # "undefined"
  /\ IF SkipsRegistration(c)
       THEN /\ UNCHANGED schedVars
            /\ UNCHANGED <<batch, fired>>
            /\ lastOp' = "observeRef-skipped"
            /\ UNCHANGED <<dupReg, cancelled, firstClaim, claimOrder, initialCount, track>>
            /\ UNCHANGED hookVars
       ELSE registerObserver(node, CallbackOf(c), stopProp[c])

(* --------------------------- specifications --------------------------- *)
InitSched ==
  /\ observerRef = <<>>
  /\ leaked = 0
  /\ observedNodes = <<>>
  /\ tempNodes = <<>>
  /\ batch = <<>>
  /\ fired = <<>>
  /\ lastOp = "constructed"
  /\ dupReg = NULL
  /\ cancelled = {}
  /\ isInitiallyVisible = [c \in Consumers |-> "undefined"]
  /\ firstClaim = [c \in Consumers |-> "none"]
  /\ claimOrder = <<>>

\* the provider of IntersectionObserverExample: initiallyVisibleElements={0},
\* consumers are DeferredRenderWrappers (stopObservingOnceVisible = true)
InitProvider ==
  /\ InitSched
  /\ initiallyVisibleElements = 0
  /\ initialCount = 0
  /\ stopProp = [c \in Consumers |-> TRUE]

Init == InitProvider /\ track = "none"

\* the scheduler under any caller of registerObserver and rootRef
Next ==
  \/ \E node \in Handles, cb \in Callbacks, stop \in BOOLEAN :
       registerObserver(node, cb, stop)
  \/ \E cb \in Callbacks : registerObserver(NULL, cb, FALSE)
  \/ \E m \in RootMargins, style \in Styles : rootRef(ROOT, m, style)
  \/ rootRef(NULL, <<>>, CHOOSE style \in Styles : TRUE)
  \/ \E m \in RootMargins, style \in Styles : Reconfigure(m, style)
  \/ \E entries \in TickBatches(Handles) : Tick(entries)
  \/ EndBatch

Spec == Init /\ [][Next]_vars

\* the same scheduler, recording the handles registered twice
InitDup == InitProvider /\ track = "dupReg"

SpecDup == InitDup /\ [][Next]_vars

\* the same scheduler, recording the cancelled registrations
InitCancel == InitProvider /\ track = "cancelled"

SpecCancel == InitCancel /\ [][Next]_vars

\* a provider with any initiallyVisibleElements prop (undefined || 0 is 0)
InitHook ==
  /\ InitSched
  /\ initiallyVisibleElements \in 0..MaxInitiallyVisible
  /\ initialCount = initiallyVisibleElements
  /\ stopProp \in [Consumers -> BOOLEAN]
  /\ track = "none"

\* the scheduler driven by consumers of the hook only
NextHook ==
  \/ \E c \in Consumers : Render(c)
  \/ \E c \in Consumers : \E node \in {NULL, NodeOf(c)} : observeRef(c, node)
  \/ \E m \in RootMargins, style \in Styles : rootRef(ROOT, m, style)
  \/ rootRef(NULL, <<>>, CHOOSE style \in Styles : TRUE)
  \/ \E entries \in TickBatches({NodeOf(c) : c \in Consumers}) : Tick(entries)
  \/ EndBatch

\* the claims of the consumers alone
NextClaim == \E c \in Consumers : Render(c)

SpecClaim == InitHook /\ [][NextClaim]_vars

SpecHook == InitHook /\ [][NextHook]_vars

(* ------------------------------- claims ------------------------------- *)
QueuedNodes == {tempNodes[i].node : i \in DOMAIN tempNodes}

Observed == IF Live THEN observerRef[1].observed ELSE <<>>

\* C1: a handle registered twice with no tick in between has, once the sensor
\* is live, exactly one registry entry and exactly one observe request on the
\* sensor
C1_NoDuplicateObservation ==
  \A h \in Handles :
    (dupReg = h /\ Live) =>
      /\ Cardinality({i \in DOMAIN observedNodes : observedNodes[i].node = h}) = 1
      /\ Count(Observed, h) = 1

\* C2: a tick retires every registered one-shot handle it reports as
\* intersecting: its callback runs with true exactly once and nothing runs for
\* it afterwards, it leaves the registry and the sensor, and the tick fires one
\* true callback per such handle and shrinks the registry by their number
OneShotHits(entries) ==
  {h \in MapKeys(observedNodes) :
     /\ MapGet(observedNodes, h).stopObservingOnceVisible
     /\ \E i \in DOMAIN entries : entries[i] = TickEntry(h, TRUE)}

TrueCalls(f, H) == {i \in DOMAIN f : f[i].node \in H /\ f[i].isIntersecting}

C2_Retires(entries) ==
  LET K == OneShotHits(entries) IN
    /\ \A h \in K :
         /\ Cardinality(TrueCalls(fired', {h})) = 1
         /\ \A i \in TrueCalls(fired', {h}) :
              \A j \in DOMAIN fired' : j > i => fired'[j].node # h
         /\ ~MapHas(observedNodes', h)
         /\ h \notin Targets(observerRef')
    /\ Cardinality(TrueCalls(fired', K)) = Cardinality(K)
    /\ Len(observedNodes) - Len(observedNodes') = Cardinality(K)
    /\ \A i \in DOMAIN fired' : MapHas(observedNodes, fired'[i].node)

C3_CancelledNeverInvoked ==
  \A i \in DOMAIN fired : <<fired[i].node, fired[i].visibilityCallback>> \notin cancelled

\* C4: unregistering by callback removes exactly one registry entry, one that
\* holds the callback, with its subscription, and leaves the other entries,
\* the other subscriptions and the pending queue as they were; with no
\* matching entry nothing changes
Matches(cb) == {i \in DOMAIN observedNodes : observedNodes[i].visibilityCallback = cb}

C4_Removes(cb) ==
  IF Matches(cb) = {}
    THEN UNCHANGED schedVars
    ELSE /\ \E i \in Matches(cb) :
              /\ observedNodes' =
                   SelectSeq(observedNodes, LAMBDA e : e.node # observedNodes[i].node)
              /\ Len(observedNodes') = Len(observedNodes) - 1
              /\ Targets(observerRef') = Targets(observerRef) \ {observedNodes[i].node}
              /\ Live => Observed' = SelectSeq(Observed, LAMBDA n : n # observedNodes[i].node)
         /\ Live' = Live
         /\ UNCHANGED <<tempNodes, leaked>>

C5_ClaimIdempotent ==
  /\ \A c \in Consumers : firstClaim[c] # "none" => isInitiallyVisible[c] = firstClaim[c]
  /\ initiallyVisibleElements =
       initialCount - Cardinality({c \in Consumers : firstClaim[c] = "true"})

\* C6: the first initialCount consumers to claim receive true and the later
\* ones false; a first claim is true and decrements the counter iff the
\* counter is positive, any other claim leaves the counter alone, and the
\* counter is never negative
C6_Exhaustion ==
  /\ \A i \in DOMAIN claimOrder :
       firstClaim[claimOrder[i]] = IF i <= initialCount THEN "true" ELSE "false"
  /\ initiallyVisibleElements = initialCount - Min(initialCount, Len(claimOrder))
  /\ initiallyVisibleElements >= 0

C6_Claim(c) ==
  IF isInitiallyVisible[c] = "undefined"
    THEN /\ (isInitiallyVisible'[c] = "true") <=> (initiallyVisibleElements > 0)
         /\ initiallyVisibleElements' =
              IF initiallyVisibleElements > 0
                THEN initiallyVisibleElements - 1
                ELSE initiallyVisibleElements
    ELSE initiallyVisibleElements' = initiallyVisibleElements

C6_BootstrapExhaustion ==
  [][C6_Exhaustion' /\ \A c \in Consumers : Render(c) => C6_Claim(c)]_vars

C6_Witness ==
  /\ Len(claimOrder) = NumConsumers
  /\ initialCount >= 1
  /\ firstClaim[claimOrder[1]] = "true"
  /\ firstClaim[claimOrder[NumConsumers]] = "false"
  /\ initiallyVisibleElements = 0

\* C7: the element of a consumer whose first claim was true and that has
\* stopObservingOnceVisible set is never in the registry, the pending queue or
\* the targets of the sensor
C7_BootstrappedNeverRegisters ==
  \A c \in Consumers :
    (firstClaim[c] = "true" /\ stopProp[c]) =>
      NodeOf(c) \notin MapKeys(observedNodes) \cup QueuedNodes \cup Targets(observerRef)

C9_AtMostOneLiveSensor == LiveSensors <= 1

\* C10: creating the sensor observes the queued registrations on it in the
\* order they were registered, each once, and empties the queue
C10_Flushes ==
  /\ Observed' = [i \in DOMAIN tempNodes |-> tempNodes[i].node]
  /\ tempNodes' = <<>>

C10_FlushIsFifo == [][lastOp' \in {"attached", "reattached"} => C10_Flushes]_vars

C10_Witness ==
  /\ lastOp = "attached"
  /\ Observed = <<"B", "A">>
  /\ tempNodes = <<>>

\* C11: a registration made while no sensor is live is appended to the
\* pending queue, and an attach leaves every queued handle in the registry and
\* subscribed to the new sensor, so that one tick reporting each queued handle
\* as intersecting invokes the callback of every queued registration once
AllIntersecting(temp) ==
  LET first == {i \in DOMAIN temp : \A j \in 1..(i - 1) : temp[j].node # temp[i].node}
      nth(k) == CHOOSE i \in first : Cardinality({j \in first : j <= i}) = k
  IN [k \in 1..Cardinality(first) |-> TickEntry(temp[nth(k)].node, TRUE)]

C11_Queues ==
  \A h \in Handles, cb \in Callbacks, stop \in BOOLEAN :
    registerObserver(h, cb, stop) => tempNodes' = Append(tempNodes, Entry(h, cb, stop))

C11_TakesEffect ==
  /\ \A i \in DOMAIN tempNodes :
       /\ MapHas(observedNodes', tempNodes[i].node)
       /\ tempNodes[i].node \in Targets(observerRef')
  /\ LET f == Dispatch(observerRef', observedNodes', AllIntersecting(tempNodes)).fired IN
       \A i \in DOMAIN tempNodes :
         Cardinality({k \in DOMAIN f :
                        /\ f[k].node = tempNodes[i].node
                        /\ f[k].visibilityCallback = tempNodes[i].visibilityCallback}) = 1

C11_PendingTakesEffect ==
  [][/\ (~Live /\ lastOp' \in {"queued", "register-noop"}) => C11_Queues
     /\ lastOp' \in {"attached", "reattached"} => C11_TakesEffect]_vars

\* C12: an attach with a positive rootMargin component on a root none of whose
\* overflow styles is auto throws and leaves the scheduler state as it was (no
\* sensor built, the pending queue and the registry untouched); a valid attach
\* that follows flushes the whole queue
C12_Invalid(rootMargin, style) ==
  /\ \E i \in DOMAIN rootMargin : rootMargin[i] > 0
  /\ "auto" \notin {style.overflow, style.overflowY, style.overflowX}

C12_ThrowsWhenInvalid ==
  /\ \A m \in RootMargins, style \in Styles :
       (rootRef(ROOT, m, style) /\ C12_Invalid(m, style)) => lastOp' = "attach-threw"
  /\ lastOp' = "attach-threw" =>
       \E m \in RootMargins, style \in Styles : C12_Invalid(m, style) /\ rootRef(ROOT, m, style)

C12_ThrowFrame ==
  /\ lastOp' = "attach-threw" =>
       /\ UNCHANGED <<observerRef, leaked, observedNodes, tempNodes>>
       /\ UNCHANGED <<initiallyVisibleElements, isInitiallyVisible>>
  /\ lastOp' = "reattach-threw" =>
       /\ ~Live'
       /\ UNCHANGED <<leaked, observedNodes, tempNodes>>

C12_LaterAttachFlushes ==
  (lastOp \in {"attach-threw", "reattach-threw"} /\ lastOp' = "attached") =>
     /\ tempNodes' = <<>>
     /\ \A i \in DOMAIN tempNodes :
          /\ MapHas(observedNodes', tempNodes[i].node)
          /\ tempNodes[i].node \in Targets(observerRef')

C12_InvalidAttachThrows ==
  [][/\ lastOp' \in {"attached", "attach-threw"} => C12_ThrowsWhenInvalid
     /\ C12_ThrowFrame
     /\ C12_LaterAttachFlushes]_vars

C12_Witness ==
  /\ lastOp = "attach-threw"
  /\ tempNodes # <<>>
  /\ ~Live

\* the pairs of a tick that reach a callback, told from the registry the tick
\* started with: the target has an entry, and no earlier pair of the tick has
\* retired it
Delivered(entries, map, i) ==
  /\ MapHas(map, entries[i].target)
  /\ ~ /\ MapGet(map, entries[i].target).stopObservingOnceVisible
       /\ \E j \in 1..(i - 1) : entries[j] = TickEntry(entries[i].target, TRUE)

\* those pairs, in the order of the tick
RECURSIVE DeliveredFrom(_, _, _)
DeliveredFrom(entries, map, i) ==
  IF i > Len(entries)
    THEN <<>>
    ELSE (IF Delivered(entries, map, i) THEN <<entries[i]>> ELSE <<>>)
           \o DeliveredFrom(entries, map, i + 1)

DeliveredSeq(entries, map) == DeliveredFrom(entries, map, 1)

\* the pair each invocation was made for
FiredPairs(f) == [k \in DOMAIN f |-> TickEntry(f[k].node, f[k].isIntersecting)]

\* C13: the pairs of one tick are processed in one step, in the order the sensor
\* delivered them, and until the batch has ended no other operation of the
\* scheduler runs
C13_InOrder == FiredPairs(fired') = DeliveredSeq(batch', observedNodes)

C14_DetachFrame ==
  lastOp' = "detached" =>
    /\ ~Live'
    /\ UNCHANGED <<observedNodes, tempNodes, initiallyVisibleElements>>

C14_SilentWhileDetached == ~Live' => fired' = <<>>

C14_TearDownFrame == [][C14_DetachFrame /\ C14_SilentWhileDetached]_vars

\* C15: a pair of a tick whose handle has no registry entry when it is resolved
\* invokes no callback and changes neither the registry, the pending queue nor
\* the subscriptions, and the pairs after it are still processed: the tick has
\* the effect of the same tick without its stale pairs
WithoutStale(entries, map) == DeliveredSeq(entries, map)

C15_Drops ==
  /\ FiredPairs(fired') = WithoutStale(batch', observedNodes)
  /\ \A k \in DOMAIN fired' : MapHas(observedNodes, fired'[k].node)
  /\ UNCHANGED <<tempNodes, leaked>>
  /\ \A h \in Handles :
       (\/ MapHas(observedNodes', h) # MapHas(observedNodes, h)
        \/ (h \in Targets(observerRef')) # (h \in Targets(observerRef)))
         => \E i \in DOMAIN batch' :
              batch'[i].target = h /\ Delivered(batch', observedNodes, i)
  /\ [observerRef |-> observerRef', observedNodes |-> observedNodes', fired |-> fired']
       = Dispatch(observerRef, observedNodes, WithoutStale(batch', observedNodes))

C15_StalePairsDropped == [][batch' # <<>> => C15_Drops]_vars

C15_Witness ==
  /\ Len(batch) = 2
  /\ Len(fired) = 1
  /\ batch[1].target # batch[2].target
  /\ fired[1].node = batch[2].target

\* C16: every pair (h, v) of a tick whose handle is in the registry invokes the
\* registered callback once with v, while the entry is still in the registry;
\* the tick removes and unobserves exactly the handles that have the one-shot
\* flag and were reported intersecting, so a pair with v = FALSE removes
\* nothing and a handle without the flag is never removed
RetiredBy(entries, map) ==
  {h \in MapKeys(map) :
     /\ MapGet(map, h).stopObservingOnceVisible
     /\ \E i \in DOMAIN entries : entries[i] = TickEntry(h, TRUE)}

C16_CallsOnce ==
  /\ FiredPairs(fired') = DeliveredSeq(batch', observedNodes)
  /\ \A k \in DOMAIN fired' :
       /\ fired'[k].visibilityCallback = MapGet(observedNodes, fired'[k].node).visibilityCallback
       /\ fired'[k].registered

C16_RetiresOnlyVisibleOneShots ==
  /\ MapKeys(observedNodes') = MapKeys(observedNodes) \ RetiredBy(batch', observedNodes)
  /\ Targets(observerRef') = Targets(observerRef) \ RetiredBy(batch', observedNodes)
  /\ \A h \in MapKeys(observedNodes') : MapGet(observedNodes', h) = MapGet(observedNodes, h)
  /\ \A h \in MapKeys(observedNodes) \ MapKeys(observedNodes') :
       \E k \in DOMAIN fired' : fired'[k].node = h /\ fired'[k].isIntersecting

C16_PairDispatch ==
  [][batch' # <<>> => (C16_CallsOnce /\ C16_RetiresOnlyVisibleOneShots)]_vars

C16_Witness ==
  /\ Len(batch) = 2
  /\ Len(fired) = 2
  /\ batch[1].target = batch[2].target
  /\ ~batch[1].isIntersecting
  /\ batch[2].isIntersecting
  /\ ~MapHas(observedNodes, batch[1].target)

\* C17: an attach after a tear-down, and a reconfiguration, subscribe the new
\* sensor to the handles flushed from the pending queue only; the handles the
\* registry held before stay in the registry and are not subscribed
C17_FlushedOnly ==
  /\ Targets(observerRef') = QueuedNodes
  /\ MapKeys(observedNodes') = MapKeys(observedNodes) \cup QueuedNodes
  /\ \A h \in MapKeys(observedNodes) \ QueuedNodes :
       /\ h \notin Targets(observerRef')
       /\ MapGet(observedNodes', h) = MapGet(observedNodes, h)

C17_NoReobserve ==
  [][lastOp' \in {"attached", "reattached"} => C17_FlushedOnly]_vars

C17_Witness ==
  /\ lastOp \in {"attached", "reattached"}
  /\ Live
  /\ \E h \in MapKeys(observedNodes) : h \notin Targets(observerRef)
  /\ \E h \in MapKeys(observedNodes) : h \in Targets(observerRef)

FirstQueued(h) ==
  CHOOSE i \in DOMAIN tempNodes :
    /\ tempNodes[i].node = h
    /\ \A j \in 1..(i - 1) : tempNodes[j].node # h

C19_LiveFirstWins ==
  lastOp' = "register-noop" => UNCHANGED <<observerRef, observedNodes, tempNodes>>

C19_QueuedFirstWins ==
  lastOp' \in {"attached", "reattached"} =>
    \A h \in QueuedNodes : MapGet(observedNodes', h) = tempNodes[FirstQueued(h)]

C19_FirstRegistrationWins == [][C19_LiveFirstWins /\ C19_QueuedFirstWins]_vars

====
